---------------------------- MODULE Spec2Model ----------------------------
(***************************************************************************)
(* Model of src/effingham_supabase.py: the MQTT uplink ingestion bridge.   *)
(*                                                                         *)
(* The broker client (paho loop_forever) hands one message at a time to    *)
(* on_message, which decodes the envelope, normalises the received-at      *)
(* timestamp (to_est), upserts the Brands and Devices rows, and inserts    *)
(* one reading row into SoilSensorReadings or ClimateReadings.             *)
(*                                                                         *)
(* JSON scalars are modelled by their literal text ("10", "21.5"); Python  *)
(* None, JSON null and the default of dict.get for an absent key are all   *)
(* the one value Null.                                                     *)
(***************************************************************************)
EXTENDS Integers, Sequences, FiniteSets, Bags, TLC

VARIABLES
    Brands,              \* table Brands: bag of rows [brand_name]
    Devices,             \* table Devices: bag of rows [device_eui, brand, sensor_name]
    SoilSensorReadings,  \* table SoilSensorReadings: bag of reading rows
    ClimateReadings,     \* table ClimateReadings: bag of reading rows
    loop,                \* "Idle", "Busy" (on_message is running) or "Stopped"
    msg,                 \* the message handed to on_message (NoMsg when Idle)
    calls,               \* the store calls the last on_message issued, in order
    outcome,             \* the exit path the last on_message took
    raised,              \* the exception the last on_message raised, or "none"
    received_at_raw,     \* received_at_raw of the last on_message (lines 53-60)
    host_utc_offset      \* UTC offset (minutes) of the host's local time zone

tables == <<Brands, Devices, SoilSensorReadings, ClimateReadings>>
vars == <<Brands, Devices, SoilSensorReadings, ClimateReadings,
          loop, msg, calls, outcome, raised, received_at_raw, host_utc_offset>>
readings == <<SoilSensorReadings, ClimateReadings>>

Null == "null"

(***************************************************************************)
(* Python truthiness of a JSON scalar: None and the empty string are       *)
(* falsy (the `or` of line 53 and 58, `not` of line 56, `all` of line 63). *)
(***************************************************************************)
Truthy(v) == v \notin {Null, ""}

\* a or b
Or(a, b) == IF Truthy(a) THEN a ELSE b

(***************************************************************************)
(* decoded_payload values: JSON null / absent key, a JSON object (a        *)
(* mapping from field names to scalars) or a non-empty JSON array.         *)
(***************************************************************************)
JNull == [type |-> "null", fields |-> <<>>]
JObject(f) == [type |-> "object", fields |-> f]
JArray == [type |-> "array", fields |-> <<>>]

\* truthiness of decoded_payload in all([...]) (line 63)
TruthyPayload(p) ==
    \/ p.type = "object" /\ DOMAIN p.fields # {}
    \/ p.type = "array"

\* decoded_payload.get(k) (lines 86-90, 101-104) on a mapping
Get(p, k) == IF k \in DOMAIN p.fields THEN p.fields[k] ELSE Null

(***************************************************************************)
(* Timestamps.  TLC strings are atomic, so the characters of each          *)
(* timestamp string of the model are tabulated here; to_est works on the   *)
(* character sequence, as re.match and datetime.fromisoformat do.          *)
(***************************************************************************)
TsStrings ==
    {"not-a-date",
     "2024-01-01T12:00:00Z",
     "2024-07-04T16:00:00.123456Z",
     "2024-03-10T06:30:00Z",
     "2024-03-10T07:00:00Z",
     "2024-11-03T05:59:59Z",
     "2024-11-03T06:00:00Z",
     "2024-01-01T03:00:00.5Z",
     "2024-02-30T12:00:00Z",
     "2024-01-01T12:00:00",
     "2024-01-01T12:00:00+02:00",
     "2024-01-01 12:00:00Z",
     "2024-07-04T16:00:00.1234567Z",
     "2024-03-10T06:59:59Z",
     "2024-02-29T23:30:00Z"}

Chars(ts) ==
    CASE ts = "" -> <<>>
      [] ts = "not-a-date" ->
           <<"n", "o", "t", "-", "a", "-", "d", "a", "t", "e">>
      [] ts = "2024-01-01T12:00:00Z" ->
           <<"2", "0", "2", "4", "-", "0", "1", "-", "0", "1", "T", "1", "2", ":", "0", "0", ":", "0", "0", "Z">>
      [] ts = "2024-07-04T16:00:00.123456Z" ->
           <<"2", "0", "2", "4", "-", "0", "7", "-", "0", "4", "T", "1", "6", ":", "0", "0", ":", "0", "0", ".", "1", "2", "3", "4", "5", "6", "Z">>
      [] ts = "2024-03-10T06:30:00Z" ->
           <<"2", "0", "2", "4", "-", "0", "3", "-", "1", "0", "T", "0", "6", ":", "3", "0", ":", "0", "0", "Z">>
      [] ts = "2024-03-10T07:00:00Z" ->
           <<"2", "0", "2", "4", "-", "0", "3", "-", "1", "0", "T", "0", "7", ":", "0", "0", ":", "0", "0", "Z">>
      [] ts = "2024-11-03T05:59:59Z" ->
           <<"2", "0", "2", "4", "-", "1", "1", "-", "0", "3", "T", "0", "5", ":", "5", "9", ":", "5", "9", "Z">>
      [] ts = "2024-11-03T06:00:00Z" ->
           <<"2", "0", "2", "4", "-", "1", "1", "-", "0", "3", "T", "0", "6", ":", "0", "0", ":", "0", "0", "Z">>
      [] ts = "2024-01-01T03:00:00.5Z" ->
           <<"2", "0", "2", "4", "-", "0", "1", "-", "0", "1", "T", "0", "3", ":", "0", "0", ":", "0", "0", ".", "5", "Z">>
      [] ts = "2024-02-30T12:00:00Z" ->
           <<"2", "0", "2", "4", "-", "0", "2", "-", "3", "0", "T", "1", "2", ":", "0", "0", ":", "0", "0", "Z">>
      [] ts = "2024-01-01T12:00:00" ->
           <<"2", "0", "2", "4", "-", "0", "1", "-", "0", "1", "T", "1", "2", ":", "0", "0", ":", "0", "0">>
      [] ts = "2024-01-01T12:00:00+02:00" ->
           <<"2", "0", "2", "4", "-", "0", "1", "-", "0", "1", "T", "1", "2", ":", "0", "0", ":", "0", "0", "+", "0", "2", ":", "0", "0">>
      [] ts = "2024-01-01 12:00:00Z" ->
           <<"2", "0", "2", "4", "-", "0", "1", "-", "0", "1", " ", "1", "2", ":", "0", "0", ":", "0", "0", "Z">>
      [] ts = "2024-07-04T16:00:00.1234567Z" ->
           <<"2", "0", "2", "4", "-", "0", "7", "-", "0", "4", "T", "1", "6", ":", "0", "0", ":", "0", "0", ".", "1", "2", "3", "4", "5", "6", "7", "Z">>
      [] ts = "2024-03-10T06:59:59Z" ->
           <<"2", "0", "2", "4", "-", "0", "3", "-", "1", "0", "T", "0", "6", ":", "5", "9", ":", "5", "9", "Z">>
      [] ts = "2024-02-29T23:30:00Z" ->
           <<"2", "0", "2", "4", "-", "0", "2", "-", "2", "9", "T", "2", "3", ":", "3", "0", ":", "0", "0", "Z">>

Digits == {"0", "1", "2", "3", "4", "5", "6", "7", "8", "9"}

DigitVal(c) ==
    CASE c = "0" -> 0 [] c = "1" -> 1 [] c = "2" -> 2 [] c = "3" -> 3
      [] c = "4" -> 4 [] c = "5" -> 5 [] c = "6" -> 6 [] c = "7" -> 7
      [] c = "8" -> 8 [] c = "9" -> 9

DigitStr(n) ==
    CASE n = 0 -> "0" [] n = 1 -> "1" [] n = 2 -> "2" [] n = 3 -> "3"
      [] n = 4 -> "4" [] n = 5 -> "5" [] n = 6 -> "6" [] n = 7 -> "7"
      [] n = 8 -> "8" [] n = 9 -> "9"

\* int() of the digit string s[i..j]
RECURSIVE Num(_, _, _)
Num(s, i, j) == IF j < i THEN 0 ELSE 10 * Num(s, i, j - 1) + DigitVal(s[j])

AllDigits(s, i, j) == \A k \in i..j : s[k] \in Digits

\* \d{4}-\d{2}-\d{2} at s[1..10]
IsDate(s) ==
    /\ Len(s) >= 10
    /\ \A k \in {1, 2, 3, 4, 6, 7, 9, 10} : s[k] \in Digits
    /\ s[5] = "-" /\ s[8] = "-"

\* \d{2}:\d{2}:\d{2} at s[i..i+7]
IsTime(s, i) ==
    /\ Len(s) >= i + 7
    /\ \A k \in {i, i + 1, i + 3, i + 4, i + 6, i + 7} : s[k] \in Digits
    /\ s[i + 2] = ":" /\ s[i + 5] = ":"

(***************************************************************************)
(* re.match(r'^(\d{4}-\d{2}-\d{2}T\d{2}:\d{2}:\d{2})(?:\.(\d+))?Z$', ts)   *)
(* (line 24); strings ending in a newline are not in the model.            *)
(***************************************************************************)
RegexMatch(s) ==
    /\ IsDate(s) /\ Len(s) >= 20 /\ s[11] = "T" /\ IsTime(s, 12)
    /\ s[Len(s)] = "Z"
    /\ \/ Len(s) = 20
       \/ Len(s) >= 22 /\ s[20] = "." /\ AllDigits(s, 21, Len(s) - 1)

\* ts.replace('Z', '+00:00') (line 30)
RECURSIVE ReplaceZ(_)
ReplaceZ(s) ==
    IF s = <<>> THEN <<>>
    ELSE (IF Head(s) = "Z" THEN <<"+", "0", "0", ":", "0", "0">> ELSE <<Head(s)>>)
         \o ReplaceZ(Tail(s))

IsLeap(y) == (y % 4 = 0 /\ y % 100 # 0) \/ y % 400 = 0

DaysInMonth(y, m) ==
    IF m = 2 THEN (IF IsLeap(y) THEN 29 ELSE 28)
    ELSE IF m \in {4, 6, 9, 11} THEN 30 ELSE 31

\* a parse failure of datetime.fromisoformat (ValueError)
Invalid == [ok |-> FALSE]

(***************************************************************************)
(* datetime(y, mo, d, h, mi, s, tzinfo): the range checks of the datetime  *)
(* constructor.  off is the UTC offset in minutes, aware says whether the  *)
(* string carried one.                                                     *)
(***************************************************************************)
MkDateTime(y, mo, d, h, mi, s, aware, off) ==
    IF /\ y >= 1 /\ mo \in 1..12 /\ d >= 1 /\ d <= DaysInMonth(y, mo)
       /\ h <= 23 /\ mi <= 59 /\ s <= 59
    THEN [ok |-> TRUE, y |-> y, mo |-> mo, d |-> d, h |-> h, mi |-> mi, s |-> s,
          aware |-> aware, off |-> off]
    ELSE Invalid

(***************************************************************************)
(* datetime.fromisoformat on the forms every CPython >= 3.7 accepts:       *)
(*   YYYY-MM-DD                                                            *)
(*   YYYY-MM-DD<any char>HH:MM:SS[.fff|.ffffff][(+|-)HH:MM]                *)
(* Anything else is a ValueError.  The sub-second part does not reach the  *)
(* output of to_est (strftime prints whole seconds) and is dropped.        *)
(***************************************************************************)
FromIsoFormat(s) ==
    IF ~IsDate(s) THEN Invalid
    ELSE LET y == Num(s, 1, 4)
             mo == Num(s, 6, 7)
             d == Num(s, 9, 10)
         IN  IF Len(s) = 10 THEN MkDateTime(y, mo, d, 0, 0, 0, FALSE, 0)
             ELSE IF ~IsTime(s, 12) THEN Invalid
             ELSE LET h == Num(s, 12, 13)
                      mi == Num(s, 15, 16)
                      sec == Num(s, 18, 19)
                      \* index of the first character after the fraction
                      p == IF Len(s) >= 20 /\ s[20] = "."
                           THEN IF Len(s) >= 26 /\ AllDigits(s, 21, 26) THEN 27
                                ELSE IF Len(s) >= 23 /\ AllDigits(s, 21, 23) THEN 24
                                ELSE 0
                           ELSE 20
                  IN  IF p = 0 THEN Invalid
                      ELSE IF Len(s) = p - 1
                      THEN MkDateTime(y, mo, d, h, mi, sec, FALSE, 0)
                      ELSE IF /\ Len(s) = p + 5
                              /\ s[p] \in {"+", "-"}
                              /\ AllDigits(s, p + 1, p + 2)
                              /\ s[p + 3] = ":"
                              /\ AllDigits(s, p + 4, p + 5)
                              /\ Num(s, p + 1, p + 2) <= 23
                              /\ Num(s, p + 4, p + 5) <= 59
                      THEN LET mag == 60 * Num(s, p + 1, p + 2) + Num(s, p + 4, p + 5)
                           IN  MkDateTime(y, mo, d, h, mi, sec, TRUE,
                                          IF s[p] = "-" THEN 0 - mag ELSE mag)
                      ELSE Invalid

(***************************************************************************)
(* Lines 26-28: frac6 is the fraction cut to 6 digits and right-padded     *)
(* with zeros, so the string handed to fromisoformat is                    *)
(* base + "." + 6 digits + "+00:00".                                       *)
(***************************************************************************)
Frac6(s) ==
    LET frac == IF Len(s) = 20 THEN <<>> ELSE SubSeq(s, 21, Len(s) - 1)
        cut == SubSeq(frac, 1, IF Len(frac) < 6 THEN Len(frac) ELSE 6)
    IN  cut \o [k \in 1..(6 - Len(cut)) |-> "0"]

RegexBranchString(s) ==
    SubSeq(s, 1, 19) \o <<".">> \o Frac6(s) \o <<"+", "0", "0", ":", "0", "0">>

\* days since 1970-01-01 of the civil date y-m-d (proleptic Gregorian)
DaysFromCivil(y, m, d) ==
    LET yy == IF m <= 2 THEN y - 1 ELSE y
        era == yy \div 400
        yoe == yy - era * 400
        mp == (m + 9) % 12
        doy == (153 * mp + 2) \div 5 + d - 1
        doe == yoe * 365 + yoe \div 4 - yoe \div 100 + doy
    IN  era * 146097 + doe - 719468

\* the civil date of a day number, as [y, m, d]
CivilFromDays(z0) ==
    LET z == z0 + 719468
        era == z \div 146097
        doe == z - era * 146097
        yoe == (doe - doe \div 1460 + doe \div 36524 - doe \div 146096) \div 365
        doy == doe - (365 * yoe + yoe \div 4 - yoe \div 100)
        mp == (5 * doy + 2) \div 153
        d == doy - (153 * mp + 2) \div 5 + 1
        m == IF mp < 10 THEN mp + 3 ELSE mp - 9
        y == yoe + era * 400 + (IF m <= 2 THEN 1 ELSE 0)
    IN  [y |-> y, m |-> m, d |-> d]

\* 0 = Sunday; 1970-01-01 was a Thursday
DayOfWeek(days) == (days + 4) % 7

\* faulty variant of NewYorkOffset: Eastern standard time all year round
NewYorkOffset_AlwaysEST(days, sec) == 0 - 300

\* day number of the n-th Sunday of month m of year y
NthSunday(y, m, n) ==
    LET first == DaysFromCivil(y, m, 1)
    IN  first + ((7 - DayOfWeek(first)) % 7) + 7 * (n - 1)

(***************************************************************************)
(* ZoneInfo("America/New_York") at a UTC instant (day number, second of    *)
(* day), for the US rule in force since 2007: daylight time from the       *)
(* second Sunday of March, 02:00 EST (07:00 UTC), to the first Sunday of   *)
(* November, 02:00 EDT (06:00 UTC).  The result is the UTC offset in       *)
(* minutes.  The timestamps of the model are of 2007 or later.             *)
(***************************************************************************)
NewYorkOffset(days, sec) ==
    LET y == CivilFromDays(days).y
        start == NthSunday(y, 3, 2)
        stop == NthSunday(y, 11, 1)
        afterStart == days > start \/ (days = start /\ sec >= 7 * 3600)
        beforeStop == days < stop \/ (days = stop /\ sec < 6 * 3600)
    IN  IF afterStart /\ beforeStop THEN 0 - 240 ELSE 0 - 300

Pad2(n) == DigitStr(n \div 10) \o DigitStr(n % 10)

\* strftime('%Y') of glibc: the decimal year, not zero-padded
RECURSIVE YearStr(_)
YearStr(y) == IF y < 10 THEN DigitStr(y) ELSE YearStr(y \div 10) \o DigitStr(y % 10)

\* strftime('%Y-%m-%d %H:%M:%S') (line 32) of civil date c, second of day sec
FormatCivil(c, sec) ==
    YearStr(c.y) \o "-" \o Pad2(c.m) \o "-" \o Pad2(c.d) \o " "
    \o Pad2(sec \div 3600) \o ":" \o Pad2((sec % 3600) \div 60) \o ":"
    \o Pad2(sec % 60)

\* the civil time `off` minutes from UTC at the UTC instant (days, sec)
FormatAtOffset(days, sec, off) ==
    FormatCivil(CivilFromDays(days + (sec + off * 60) \div 86400),
                (sec + off * 60) % 86400)

\* astimezone(ZoneInfo("America/New_York")) (line 31) of a UTC instant
FormatNewYork(days, sec) == FormatAtOffset(days, sec, NewYorkOffset(days, sec))

\* the UTC instant that is u seconds after 00:00 UTC of day number days
FormatUtcSeconds(days, u) == FormatNewYork(days + u \div 86400, u % 86400)

(***************************************************************************)
(* Lines 31-32: dt.astimezone(ZoneInfo("America/New_York")) and            *)
(* strftime('%Y-%m-%d %H:%M:%S').  A naive datetime is taken by astimezone *)
(* to be in the host's local time zone (offset `host`, minutes).           *)
(***************************************************************************)
AsNewYorkString(dt, host) ==
    FormatUtcSeconds(DaysFromCivil(dt.y, dt.mo, dt.d),
                     dt.h * 3600 + dt.mi * 60 + dt.s
                     - (IF dt.aware THEN dt.off ELSE host) * 60)

(***************************************************************************)
(* to_est (lines 16-34): None for a falsy or unparsable ts, else the       *)
(* America/New_York civil time 'YYYY-MM-DD HH:MM:SS'.                      *)
(***************************************************************************)
\* faulty variant of Converted: a failed parse gives the epoch instead of None
Converted_Sentinel(dt_utc, host) ==
    IF dt_utc.ok THEN AsNewYorkString(dt_utc, host) ELSE "1970-01-01 00:00:00"

\* lines 31-34 on the result of the parse
Converted(dt_utc, host) ==
    IF dt_utc.ok THEN AsNewYorkString(dt_utc, host) ELSE Null

\* lines 24-30: the string handed to datetime.fromisoformat
IsoString(s) == IF RegexMatch(s) THEN RegexBranchString(s) ELSE ReplaceZ(s)

to_est(ts, host) ==
    IF ~Truthy(ts) THEN Null
    ELSE Converted(FromIsoFormat(IsoString(Chars(ts))), host)

(***************************************************************************)
(* The store (supabase / PostgREST).  A table is a bag of rows, so that a  *)
(* duplicate row is representable.                                         *)
(***************************************************************************)
BrandsColumns == {"brand_name"}
DevicesColumns == {"device_eui", "brand", "sensor_name"}

\* the rows of a table whose column `key` equals v
RowsWith(table, key, v) == {r \in BagToSet(table) : r[key] = v}

\* the number of rows of a table whose column `key` equals v
CountWith(table, key, v) ==
    LET hits == RowsWith(table, key, v)
    IN  BagCardinality([r \in hits |-> table[r]])

\* a row as stored: the columns not given take their default, NULL
StoredRow(columns, row) ==
    [c \in columns |-> IF c \in DOMAIN row THEN row[c] ELSE Null]

\* faulty variant of Upsert: a plain insert, which the unique key rejects
Upsert_PlainInsert(table, columns, row, key) ==
    IF RowsWith(table, key, row[key]) = {}
    THEN [ok |-> TRUE, table |-> table (+) SetToBag({StoredRow(columns, row)}),
          data |-> StoredRow(columns, row)]
    ELSE [ok |-> FALSE, table |-> table, data |-> StoredRow(columns, row)]

\* faulty variant of Upsert: the conflicting row is replaced by the given one,
\* so the columns not given fall back to their default
Upsert_ReplaceRow(table, columns, row, key) ==
    LET hits == RowsWith(table, key, row[key])
        kept == [r \in BagToSet(table) \ hits |-> table[r]]
        fresh == StoredRow(columns, row)
    IN  [ok |-> TRUE, table |-> kept (+) SetToBag({fresh}), data |-> fresh]

\* faulty variant of Upsert: ON CONFLICT DO NOTHING, the stored row stays as it is
Upsert_IgnoreDuplicates(table, columns, row, key) ==
    LET hits == RowsWith(table, key, row[key])
        fresh == StoredRow(columns, row)
    IN  IF hits = {}
        THEN [ok |-> TRUE, table |-> table (+) SetToBag({fresh}), data |-> fresh]
        ELSE [ok |-> TRUE, table |-> table, data |-> CHOOSE x \in hits : TRUE]

(***************************************************************************)
(* table.upsert(row, on_conflict=key).execute() (lines 69, 71):            *)
(* INSERT ... ON CONFLICT (key) DO UPDATE SET the given columns.  The      *)
(* result is [ok, table, data]: the table afterwards and the row returned  *)
(* (.data[0]); ok = FALSE is the store's duplicate-key error, which        *)
(* ON CONFLICT never raises.                                               *)
(***************************************************************************)
Upsert(table, columns, row, key) ==
    LET hits == RowsWith(table, key, row[key])
        Merge(r) == [c \in columns |-> IF c \in DOMAIN row THEN row[c] ELSE r[c]]
        kept == [r \in BagToSet(table) \ hits |-> table[r]]
        merged == {Merge(r) : r \in hits}
        fresh == StoredRow(columns, row)
    IN  IF hits = {}
        THEN [ok |-> TRUE, table |-> table (+) SetToBag({fresh}), data |-> fresh]
        ELSE [ok |-> TRUE,
              table |-> kept (+) [x \in merged |->
                           BagCardinality([r \in {h \in hits : Merge(h) = x} |-> table[r]])],
              data |-> CHOOSE x \in merged : TRUE]

\* faulty variant of Insert: an upsert keyed on sensor_name, which keeps only the
\* latest reading of each sensor
Insert_LatestPerSensor(table, row) ==
    [r \in {x \in BagToSet(table) : x.sensor_name # row.sensor_name} |-> table[r]]
    (+) SetToBag({row})

\* faulty variant of Insert: a row equal to a stored one is not stored again
Insert_IfAbsent(table, row) ==
    IF row \in BagToSet(table) THEN table ELSE table (+) SetToBag({row})

\* table.insert(row).execute() (lines 93, 107): a new row, whatever rows exist
Insert(table, row) == table (+) SetToBag({row})

(***************************************************************************)
(* on_message, lines 49-60: the fields taken from the envelope.  A message *)
(* is the record                                                           *)
(*   json_ok          json.loads succeeds (line 47)                        *)
(*   device_id        end_device_ids.device_id                             *)
(*   brand_id         uplink_message.version_ids.brand_id                  *)
(*   f_port           uplink_message.f_port                                *)
(*   decoded_payload  uplink_message.decoded_payload                       *)
(*   received_at      uplink_message.received_at                           *)
(*   top_received_at  received_at of the outer envelope                    *)
(*   rx_metadata      uplink_message.rx_metadata, a list of entries        *)
(*                    [received_at, time]; an absent list is the empty one *)
(*                    (`or []`, line 57)                                   *)
(***************************************************************************)
\* the for loop of lines 57-60; cur is received_at_raw before the loop
RECURSIVE ScanRxMetadata(_, _)
ScanRxMetadata(mds, cur) ==
    IF mds = <<>> THEN cur
    ELSE LET v == Or(Head(mds).received_at, Head(mds).time)
         IN  IF Truthy(v) THEN v ELSE ScanRxMetadata(Tail(mds), v)

\* faulty variant of ReceivedAtRaw: the outer envelope is preferred to the uplink body
ReceivedAtRaw_TopFirst(m) ==
    LET r == Or(m.top_received_at, m.received_at)
    IN  IF ~Truthy(r) THEN ScanRxMetadata(m.rx_metadata, r) ELSE r

\* received_at_raw, lines 53-60
ReceivedAtRaw(m) ==
    LET r == Or(m.received_at, m.top_received_at)
    IN  IF ~Truthy(r) THEN ScanRxMetadata(m.rx_metadata, r) ELSE r

\* faulty variant of Essential: decoded_payload is left out of the check of line 63
Essential_IgnoresPayload(m) == Truthy(m.device_id) /\ Truthy(m.brand_id)

\* all([device_eui, brand_name, decoded_payload]) (line 63)
Essential(m) ==
    Truthy(m.device_id) /\ Truthy(m.brand_id) /\ TruthyPayload(m.decoded_payload)

\* faulty variant of SensorNameUnset: the check of line 75 never skips
SensorNameUnset_Never(device_name) == FALSE

\* device_name is None (line 75)
SensorNameUnset(device_name) == device_name = Null

\* faulty variant of Route: elsys is routed only when the message carries an f_port
Route_ElsysNeedsPort(brand_name, f_port) ==
    IF brand_name = "tektelic" /\ f_port = "10" THEN "SoilSensorReadings"
    ELSE IF brand_name = "elsys" /\ f_port # Null THEN "ClimateReadings"
    ELSE "none"

\* faulty variant of Route: the f_port test of line 82 is dropped
Route_TektelicAnyPort(brand_name, f_port) ==
    IF brand_name = "tektelic" THEN "SoilSensorReadings"
    ELSE IF brand_name = "elsys" THEN "ClimateReadings"
    ELSE "none"

\* the if / elif / else of lines 82, 97, 110: the table the reading goes to
Route(brand_name, f_port) ==
    IF brand_name = "tektelic" /\ f_port = "10" THEN "SoilSensorReadings"
    ELSE IF brand_name = "elsys" THEN "ClimateReadings"
    ELSE "none"

\* faulty variant of SoilRecord: soil fields read under their column names
SoilRecord_ColumnNames(device_name, p, received_at_est) ==
    [sensor_name |-> device_name,
     ambient_temperature |-> Get(p, "ambient_temperature"),
     light_intensity |-> Get(p, "light_intensity"),
     relative_humidity |-> Get(p, "relative_humidity"),
     soil_temperature |-> Get(p, "soil_temperature"),
     soil_moisture |-> Get(p, "soil_moisture"),
     received_at |-> received_at_est]

\* data_to_insert, lines 84-92
SoilRecord(device_name, p, received_at_est) ==
    [sensor_name |-> device_name,
     ambient_temperature |-> Get(p, "ambient_temperature"),
     light_intensity |-> Get(p, "light_intensity"),
     relative_humidity |-> Get(p, "relative_humidity"),
     soil_temperature |-> Get(p, "Input3_voltage_to_temp"),
     soil_moisture |-> Get(p, "watermark1_tension"),
     received_at |-> received_at_est]

\* data_to_insert, lines 99-106
ClimateRecord(device_name, p, received_at_est) ==
    [sensor_name |-> device_name,
     temperature |-> Get(p, "temperature"),
     humidity |-> Get(p, "humidity"),
     pressure |-> Get(p, "pressure"),
     co2 |-> Get(p, "co2"),
     received_at |-> received_at_est]

\* faulty variant of Caught: the except clause names json.JSONDecodeError only
Caught_OnlyJson(exc) == exc = "JSONDecodeError"

(***************************************************************************)
(* `except Exception` (line 113): every exception on_message can raise is  *)
(* a subclass of Exception: json.JSONDecodeError (line 47), AttributeError *)
(* (.get on a value that is no mapping, lines 86, 101) and the store       *)
(* client's errors (lines 69, 71, 93, 107).                                *)
(***************************************************************************)
Caught(exc) ==
    exc \in {"JSONDecodeError", "AttributeError", "StoreError", "DuplicateKey"}

\* what one run of on_message leaves behind
Result(B, D, S, C, cs, out, exc, raw) ==
    [Brands |-> B, Devices |-> D, SoilSensorReadings |-> S, ClimateReadings |-> C,
     calls |-> cs, outcome |-> out, raised |-> exc, received_at_raw |-> raw]

\* faulty variant of RouteAndInsert: a message no rule matches is written as a
\* climate reading instead of being dropped at line 110
RouteAndInsert_DefaultClimate(m, fault, B, D, S, C, cs, device_name, raw, received_at_est) ==
    LET target == Route(m.brand_id, m.f_port)
        p == m.decoded_payload
    IN  IF p.type # "object"
        THEN Result(B, D, S, C, cs, "error", "AttributeError", raw)
        ELSE IF fault = "insert"
        THEN Result(B, D, S, C, Append(cs, "ClimateReadings.insert"),
                    "error", "StoreError", raw)
        ELSE IF target = "SoilSensorReadings"
        THEN Result(B, D, Insert(S, SoilRecord(device_name, p, received_at_est)), C,
                    Append(cs, target \o ".insert"), "inserted_soil", "none", raw)
        ELSE Result(B, D, S, Insert(C, ClimateRecord(device_name, p, received_at_est)),
                    Append(cs, "ClimateReadings.insert"), "inserted_climate",
                    "none", raw)

(***************************************************************************)
(* Lines 79-111, after identity resolution: route and insert.  cs are the  *)
(* store calls issued so far; fault names the store call that fails: it   *)
(* raises and writes nothing.                                              *)
(***************************************************************************)
RouteAndInsert(m, fault, B, D, S, C, cs, device_name, raw, received_at_est) ==
    LET target == Route(m.brand_id, m.f_port)
        p == m.decoded_payload
    IN  IF target = "none"
        THEN Result(B, D, S, C, cs, "no_handler", "none", raw)
        ELSE IF p.type # "object"
        THEN Result(B, D, S, C, cs, "error", "AttributeError", raw)
        ELSE IF fault = "insert"
        THEN Result(B, D, S, C, Append(cs, target \o ".insert"),
                    "error", "StoreError", raw)
        ELSE IF target = "SoilSensorReadings"
        THEN Result(B, D, Insert(S, SoilRecord(device_name, p, received_at_est)), C,
                    Append(cs, target \o ".insert"), "inserted_soil", "none", raw)
        ELSE Result(B, D, S, Insert(C, ClimateRecord(device_name, p, received_at_est)),
                    Append(cs, target \o ".insert"), "inserted_climate", "none", raw)

\* faulty variant of CheckSensorName: a device without a sensor_name is written
\* under its device_eui (device_name = sensor_name or device_eui)
CheckSensorName_FallbackToEui(m, fault, B, D, d, S, C, cs, raw, received_at_est) ==
    IF ~d.ok
    THEN Result(B, D, S, C, cs, "error", "DuplicateKey", raw)
    ELSE RouteAndInsert(m, fault, B, d.table, S, C, cs,
                        IF SensorNameUnset(d.data.sensor_name)
                        THEN m.device_id ELSE d.data.sensor_name,
                        raw, received_at_est)

(***************************************************************************)
(* Lines 72-77: device_name = device_data[0]['sensor_name'] and the check  *)
(* that it is set.  d is the result of the Devices upsert.                 *)
(***************************************************************************)
CheckSensorName(m, fault, B, D, d, S, C, cs, raw, received_at_est) ==
    IF ~d.ok
    THEN Result(B, D, S, C, cs, "error", "DuplicateKey", raw)
    ELSE IF SensorNameUnset(d.data.sensor_name)
    THEN Result(B, d.table, S, C, cs, "no_sensor_name", "none", raw)
    ELSE RouteAndInsert(m, fault, B, d.table, S, C, cs,
                        d.data.sensor_name, raw, received_at_est)

\* faulty variant of ResolveDevice: the store steps share a transaction, so a
\* failing Devices upsert takes the Brands row back
ResolveDevice_Rollback(m, fault, B, b, D, S, C, raw, received_at_est) ==
    IF ~b.ok
    THEN Result(B, D, S, C, <<"Brands.upsert">>, "error", "DuplicateKey", raw)
    ELSE IF fault = "Devices"
    THEN Result(B, D, S, C, <<"Brands.upsert", "Devices.upsert">>,
                "error", "StoreError", raw)
    ELSE CheckSensorName(m, fault, b.table, D,
                         Upsert(D, DevicesColumns,
                                [device_eui |-> m.device_id, brand |-> m.brand_id],
                                "device_eui"),
                         S, C, <<"Brands.upsert", "Devices.upsert">>,
                         raw, received_at_est)

\* line 71: the Devices upsert.  b is the result of the Brands upsert.
ResolveDevice(m, fault, B, b, D, S, C, raw, received_at_est) ==
    IF ~b.ok
    THEN Result(B, D, S, C, <<"Brands.upsert">>, "error", "DuplicateKey", raw)
    ELSE IF fault = "Devices"
    THEN Result(b.table, D, S, C, <<"Brands.upsert", "Devices.upsert">>,
                "error", "StoreError", raw)
    ELSE CheckSensorName(m, fault, b.table, D,
                         Upsert(D, DevicesColumns,
                                [device_eui |-> m.device_id, brand |-> m.brand_id],
                                "device_eui"),
                         S, C, <<"Brands.upsert", "Devices.upsert">>,
                         raw, received_at_est)

\* faulty variant of ResolveBrand: an error of the Brands upsert is swallowed and
\* the Devices upsert runs all the same
ResolveBrand_SwallowsError(m, fault, B, D, S, C, raw, received_at_est) ==
    ResolveDevice(m, IF fault = "Brands" THEN "none" ELSE fault, B,
                  IF fault = "Brands"
                  THEN [ok |-> TRUE, table |-> B, data |-> [brand_name |-> m.brand_id]]
                  ELSE Upsert(B, BrandsColumns, [brand_name |-> m.brand_id],
                              "brand_name"),
                  D, S, C, raw, received_at_est)

\* line 69: the Brands upsert
ResolveBrand(m, fault, B, D, S, C, raw, received_at_est) ==
    IF fault = "Brands"
    THEN Result(B, D, S, C, <<"Brands.upsert">>, "error", "StoreError", raw)
    ELSE ResolveDevice(m, fault, B,
                       Upsert(B, BrandsColumns, [brand_name |-> m.brand_id],
                              "brand_name"),
                       D, S, C, raw, received_at_est)

\* lines 63-64 and what follows, given received_at_raw
AfterTimestamp(m, fault, host, B, D, S, C, raw) ==
    IF ~Essential(m)
    THEN Result(B, D, S, C, <<>>, "skipped", "none", raw)
    ELSE ResolveBrand(m, fault, B, D, S, C, raw, to_est(raw, host))

\* the body of on_message's try block, lines 47-111
Handle(m, fault, host, B, D, S, C) ==
    IF ~m.json_ok
    THEN Result(B, D, S, C, <<>>, "error", "JSONDecodeError", Null)
    ELSE AfterTimestamp(m, fault, host, B, D, S, C, ReceivedAtRaw(m))

(***************************************************************************)
(* Bounds of the model.                                                    *)
(***************************************************************************)
\* the reading rows the two reading tables hold together, at most
MaxRows == 2

DeviceIds == {"eui-1", "eui-2"}
BrandIds == {"tektelic", "elsys", "acme"}
FPorts == {"10", "2"}

\* the hosts the bridge runs on: local time UTC, or US Eastern standard time
HostOffsets == {0, 0 - 300}

\* two payloads that between them carry every mapped source field once,
\* and the column names soil_temperature / soil_moisture as decoys
P1 == [ambient_temperature |-> "21.5", Input3_voltage_to_temp |-> "18.2",
       soil_temperature |-> "99.9", temperature |-> "22.0", humidity |-> "40"]
P2 == [light_intensity |-> "300", relative_humidity |-> "55",
       watermark1_tension |-> "33", soil_moisture |-> "88.8",
       pressure |-> "1013", co2 |-> "415"]
Payloads == {JNull, JObject(<<>>), JObject(P1), JObject(P2), JArray}

\* a body json.loads rejects
Malformed ==
    [json_ok |-> FALSE, device_id |-> Null, brand_id |-> Null, f_port |-> Null,
     decoded_payload |-> JNull, received_at |-> Null, top_received_at |-> Null,
     rx_metadata |-> <<>>]

\* the messages of Spec: every envelope shape, one timestamp
Messages ==
    {Malformed} \cup
    [json_ok : {TRUE}, device_id : DeviceIds \cup {Null},
     brand_id : BrandIds \cup {Null}, f_port : FPorts \cup {Null},
     decoded_payload : Payloads, received_at : {"2024-01-01T12:00:00Z"},
     top_received_at : {Null}, rx_metadata : {<<>>}]

\* rx_metadata lists: none; one entry with neither field; the hit in the
\* second entry; a first entry with an empty received_at and a time,
\* followed by another hit; one entry with both fields
RxLists ==
    {<<>>,
     <<[received_at |-> Null, time |-> Null]>>,
     <<[received_at |-> Null, time |-> Null],
       [received_at |-> "2024-11-03T06:00:00Z", time |-> Null]>>,
     <<[received_at |-> "", time |-> "2024-07-04T16:00:00.123456Z"],
       [received_at |-> "2024-11-03T06:00:00Z", time |-> Null]>>,
     <<[received_at |-> "2024-03-10T07:00:00Z",
        time |-> "2024-07-04T16:00:00.123456Z"]>>}

\* the messages of SpecTime: one accepted envelope, every timestamp shape
TimeMessages ==
    [json_ok : {TRUE}, device_id : {"eui-1"}, brand_id : {"elsys"},
     f_port : {Null}, decoded_payload : {JObject(P1)},
     received_at : {Null, "", "not-a-date", "2024-01-01T12:00:00Z"},
     top_received_at : {Null, "2024-03-10T06:30:00Z", "2024-02-30T12:00:00Z"},
     rx_metadata : RxLists]

\* the messages of SpecConv: one accepted envelope per timestamp string
ConvMessages ==
    [json_ok : {TRUE}, device_id : {"eui-1"}, brand_id : {"elsys"},
     f_port : {Null}, decoded_payload : {JObject(P1)},
     received_at : TsStrings, top_received_at : {Null}, rx_metadata : {<<>>}]

Faults == {"none", "Brands", "Devices", "insert"}

\* the devices the operator gives a sensor_name, and the name given
Provisionable == {"eui-1"}
SensorNameFor(d) == IF d = "eui-1" THEN "Sensor-A" ELSE "Sensor-B"

NoMsg == [none |-> TRUE]

RowCount == BagCardinality(SoilSensorReadings) + BagCardinality(ClimateReadings)

(***************************************************************************)
(* State machine.                                                          *)
(***************************************************************************)
Init ==
    /\ Brands = EmptyBag
    /\ Devices = EmptyBag
    /\ SoilSensorReadings = EmptyBag
    /\ ClimateReadings = EmptyBag
    /\ loop = "Idle"
    /\ msg = NoMsg
    /\ calls = <<>>
    /\ outcome = "none"
    /\ raised = "none"
    /\ received_at_raw = Null
    /\ host_utc_offset \in HostOffsets

\* loop_forever hands the next message to the on_message callback
Deliver(m) ==
    /\ loop = "Idle"
    /\ RowCount < MaxRows
    /\ loop' = "Busy"
    /\ msg' = m
    /\ calls' = <<>>
    /\ outcome' = "none"
    /\ raised' = "none"
    /\ received_at_raw' = Null
    /\ UNCHANGED <<tables, host_utc_offset>>

\* the except clause of lines 113-114 and the return to loop_forever
Finish(r) ==
    /\ Brands' = r.Brands
    /\ Devices' = r.Devices
    /\ SoilSensorReadings' = r.SoilSensorReadings
    /\ ClimateReadings' = r.ClimateReadings
    /\ calls' = r.calls
    /\ outcome' = r.outcome
    /\ raised' = r.raised
    /\ received_at_raw' = r.received_at_raw
    /\ loop' = IF r.raised = "none" \/ Caught(r.raised) THEN "Idle" ELSE "Stopped"

\* on_message, lines 44-114, run to its end on the message delivered
on_message(fault) ==
    /\ loop = "Busy"
    /\ Finish(Handle(msg, fault, host_utc_offset, Brands, Devices,
                     SoilSensorReadings, ClimateReadings))
    /\ msg' = NoMsg
    /\ UNCHANGED host_utc_offset

\* the operator assigns the sensor_name of a device row that has none
Provision(d) ==
    /\ \E r \in BagToSet(Devices) :
          /\ r.device_eui = d
          /\ r.sensor_name = Null
          /\ Devices' = [x \in (BagToSet(Devices) \ {r})
                                  \cup {[r EXCEPT !.sensor_name = SensorNameFor(d)]} |->
                            IF x = r THEN Devices[r]
                            ELSE IF x \in BagToSet(Devices) THEN Devices[x]
                            ELSE Devices[r]]
    /\ UNCHANGED <<Brands, SoilSensorReadings, ClimateReadings, loop, msg, calls,
                   outcome, raised, received_at_raw, host_utc_offset>>

Next ==
    \/ \E m \in Messages : Deliver(m)
    \/ \E fault \in Faults : on_message(fault)
    \/ \E d \in Provisionable : Provision(d)

Spec == Init /\ [][Next]_vars

\* the same machine fed with TimeMessages
NextTime ==
    \/ \E m \in TimeMessages : Deliver(m)
    \/ \E fault \in Faults : on_message(fault)
    \/ \E d \in Provisionable : Provision(d)

SpecTime == Init /\ [][NextTime]_vars

\* the same machine fed with ConvMessages
NextConv ==
    \/ \E m \in ConvMessages : Deliver(m)
    \/ \E fault \in Faults : on_message(fault)
    \/ \E d \in Provisionable : Provision(d)

SpecConv == Init /\ [][NextConv]_vars

\* on_message is a synchronous callback: once entered it runs to its end
SpecLive == Init /\ [][Next]_vars /\ WF_vars(\E fault \in Faults : on_message(fault))

(***************************************************************************)
(* Properties.                                                             *)
(*                                                                         *)
(* A step that leaves loop = "Busy" is the run of on_message on msg; the   *)
(* unprimed tables are the store before it and the primed ones the store   *)
(* after it.                                                               *)
(***************************************************************************)
HandlerStep == loop = "Busy" /\ loop' # "Busy"

EmptyObject == JObject(<<>>)

\* device_id, brand_id and a non-empty decoded_payload mapping are there
RequiredPresent(m) ==
    /\ m.json_ok
    /\ m.device_id # Null /\ m.device_id # ""
    /\ m.brand_id # Null /\ m.brand_id # ""
    /\ m.decoded_payload # JNull /\ m.decoded_payload # EmptyObject

ValidEnvelope(m) == RequiredPresent(m) /\ m.decoded_payload.type = "object"

\* the Devices row of the message's device carries a sensor_name
HasSensorName(m) ==
    \E r \in BagToSet(Devices) : r.device_eui = m.device_id /\ r.sensor_name # Null

SoilRoute(m) == m.brand_id = "tektelic" /\ m.f_port = "10"
ClimateRoute(m) == m.brand_id = "elsys"

\* the value of field k of the payload, null when the field is absent
FieldOrNull(m, k) ==
    IF k \in DOMAIN m.decoded_payload.fields THEN m.decoded_payload.fields[k] ELSE Null

\* table T grew by exactly the one row
AddedOne(T, Tnew, row) == Tnew = T (+) SetToBag({row})

\* C1: a message in which device_id, brand_id or decoded_payload is missing,
\* or decoded_payload is empty, makes on_message issue no store call at all
\* and leaves the four tables unchanged.
C1_NoWriteWhenEssentialMissing ==
    [][(/\ HandlerStep
        /\ msg.json_ok
        /\ \/ msg.device_id = Null
           \/ msg.brand_id = Null
           \/ msg.decoded_payload = JNull
           \/ msg.decoded_payload = EmptyObject)
       => (calls' = <<>> /\ UNCHANGED tables)]_vars

\* a message was skipped at line 64 while the store already held rows
C1_Witness ==
    /\ loop = "Idle" /\ outcome = "skipped" /\ calls = <<>>
    /\ Brands # EmptyBag /\ Devices # EmptyBag /\ RowCount > 0

\* C2: when the message's Devices row has sensor_name null after the
\* Devices upsert, no reading row is inserted, whatever brand_id, f_port and
\* payload are; and no stored reading row has a null sensor_name.
C2_NoReadingWithoutSensorName ==
    [][/\ (/\ HandlerStep
           /\ msg.json_ok
           /\ \A r \in BagToSet(Devices') :
                 r.device_eui = msg.device_id => r.sensor_name = Null)
          => UNCHANGED readings
       /\ \A r \in BagToSet(SoilSensorReadings') \cup BagToSet(ClimateReadings') :
             r.sensor_name # Null]_vars

\* on_message returned at line 77 for a device whose row has no sensor_name
C2_Witness ==
    /\ loop = "Idle" /\ outcome = "no_sensor_name"
    /\ calls = <<"Brands.upsert", "Devices.upsert">>
    /\ \E r \in BagToSet(Devices) : r.sensor_name = Null

\* C3: whatever the outcome of a message (malformed JSON, missing field,
\* null sensor_name, no route, a failing upsert or insert, success), the
\* loop never stops: on_message ends in Idle with one of these outcomes, and
\* every message taken up leads back to Idle, where the next one is taken.
C3_LoopReturnsToIdle ==
    /\ [][/\ loop' # "Stopped"
          /\ HandlerStep => loop' = "Idle"
          /\ (loop = "Busy" /\ loop' = "Idle")
                => outcome' \in {"error", "skipped", "no_sensor_name", "no_handler",
                                 "inserted_soil", "inserted_climate"}]_vars
    /\ (loop = "Busy") ~> (loop = "Idle")

\* the reading insert failed and the loop is Idle, ready for the next message
C3_Witness ==
    /\ loop = "Idle" /\ outcome = "error" /\ raised = "StoreError"
    /\ Len(calls) = 3

\* C4: a valid envelope with brand_id "tektelic" and f_port 10 whose device
\* has a sensor_name is inserted into SoilSensorReadings and nothing goes to
\* ClimateReadings: the one row added carries the five mapped fields, each
\* null when its source field is absent.  Only a failing store call
\* (StoreError) keeps the row out, and then SoilSensorReadings is unchanged.
C4_TektelicPort10ToSoil ==
    [][(/\ HandlerStep
        /\ ValidEnvelope(msg) /\ SoilRoute(msg) /\ HasSensorName(msg))
       => /\ ClimateReadings' = ClimateReadings
          /\ raised' \in {"none", "StoreError"}
          /\ raised' = "StoreError" => SoilSensorReadings' = SoilSensorReadings
          /\ raised' = "none" =>
             \E d \in BagToSet(Devices),
                t \in {r.received_at : r \in BagToSet(SoilSensorReadings')} :
                /\ d.device_eui = msg.device_id
                /\ AddedOne(SoilSensorReadings, SoilSensorReadings',
                      [sensor_name |-> d.sensor_name,
                       ambient_temperature |-> FieldOrNull(msg, "ambient_temperature"),
                       light_intensity |-> FieldOrNull(msg, "light_intensity"),
                       relative_humidity |-> FieldOrNull(msg, "relative_humidity"),
                       soil_temperature |-> FieldOrNull(msg, "Input3_voltage_to_temp"),
                       soil_moisture |-> FieldOrNull(msg, "watermark1_tension"),
                       received_at |-> t])]_vars

\* a soil row made from payload P1: mapped fields present, absent ones null
C4_Witness ==
    /\ outcome = "inserted_soil"
    /\ \E r \in BagToSet(SoilSensorReadings) :
          /\ r.ambient_temperature = "21.5" /\ r.soil_temperature = "18.2"
          /\ r.light_intensity = Null /\ r.relative_humidity = Null
          /\ r.soil_moisture = Null

\* C5: a valid envelope with brand_id "elsys", whatever its f_port (absent
\* included), whose device has a sensor_name is inserted into ClimateReadings
\* and nothing goes to SoilSensorReadings: the one row added carries
\* temperature, humidity, pressure and co2, each null when absent, the
\* device's sensor_name and the normalised received_at
\* ("2024-01-01T12:00:00Z" is 07:00:00 in New York).  Only a failing store
\* call (StoreError) keeps the row out, and then ClimateReadings is unchanged.
C5_ElsysToClimate ==
    [][(/\ HandlerStep
        /\ ValidEnvelope(msg) /\ ClimateRoute(msg) /\ HasSensorName(msg)
        /\ msg.f_port \in FPorts \cup {Null})
       => /\ SoilSensorReadings' = SoilSensorReadings
          /\ raised' \in {"none", "StoreError"}
          /\ raised' = "StoreError" => ClimateReadings' = ClimateReadings
          /\ raised' = "none" =>
             \E d \in BagToSet(Devices) :
                /\ d.device_eui = msg.device_id
                /\ AddedOne(ClimateReadings, ClimateReadings',
                      [sensor_name |-> d.sensor_name,
                       temperature |-> FieldOrNull(msg, "temperature"),
                       humidity |-> FieldOrNull(msg, "humidity"),
                       pressure |-> FieldOrNull(msg, "pressure"),
                       co2 |-> FieldOrNull(msg, "co2"),
                       received_at |-> "2024-01-01 07:00:00"])]_vars

\* a climate row made from payload P2: pressure and co2 present, the rest null
C5_Witness ==
    /\ outcome = "inserted_climate"
    /\ \E r \in BagToSet(ClimateReadings) :
          /\ r.sensor_name = "Sensor-A"
          /\ r.pressure = "1013" /\ r.co2 = "415"
          /\ r.temperature = Null /\ r.humidity = Null
          /\ r.received_at = "2024-01-01 07:00:00"

\* C6: a message whose (brand_id, f_port) is neither ("tektelic", 10) nor
\* ("elsys", any), tektelic with another or no f_port included, adds no row
\* to SoilSensorReadings or ClimateReadings.
C6_NoRouteNoReading ==
    [][(/\ HandlerStep
        /\ msg.json_ok
        /\ ~(msg.brand_id = "tektelic" /\ msg.f_port = "10")
        /\ msg.brand_id # "elsys")
       => UNCHANGED readings]_vars

\* a valid message of a named device reached the else branch of line 110
C6_Witness ==
    /\ loop = "Idle" /\ outcome = "no_handler"
    /\ \E r \in BagToSet(Devices) : r.brand = "tektelic" /\ r.sensor_name # Null

\* identity resolution ran to its end: both upserts returned
IdentityResolved ==
    /\ Len(calls) >= 2
    /\ ~(Len(calls) = 2 /\ raised \in {"StoreError", "DuplicateKey"})

\* C7: however often a (device_eui, brand_id) pair is resolved, there is
\* exactly one Brands row of that brand_name and one Devices row of that
\* device_eui afterwards, and no resolution fails with a duplicate-key error.
C7_UpsertIdempotent ==
    [][/\ raised' # "DuplicateKey"
       /\ \A b \in BrandIds : CountWith(Brands', "brand_name", b) <= 1
       /\ \A e \in DeviceIds : CountWith(Devices', "device_eui", e) <= 1
       /\ (HandlerStep /\ IdentityResolved')
             => /\ CountWith(Brands', "brand_name", msg.brand_id) = 1
                /\ CountWith(Devices', "device_eui", msg.device_id) = 1]_vars

\* two accepted elsys messages of eui-1: the pair was resolved repeatedly
C7_Witness ==
    /\ \E r \in BagToSet(ClimateReadings) : ClimateReadings[r] >= 2
    /\ CountWith(Brands, "brand_name", "elsys") = 1
    /\ CountWith(Devices, "device_eui", "eui-1") = 1

\* C8: an accepted message (required fields present, sensor_name assigned,
\* a route matches, no store call fails) adds exactly one reading row, also
\* when an equal row is already stored: k deliveries leave k equal rows.
C8_OneRowPerAcceptedMessage ==
    [][(/\ HandlerStep
        /\ ValidEnvelope(msg) /\ HasSensorName(msg)
        /\ (SoilRoute(msg) \/ ClimateRoute(msg))
        /\ raised' = "none")
       => /\ RowCount' = RowCount + 1
          /\ \/ /\ ClimateReadings' = ClimateReadings
                /\ \E r \in BagToSet(SoilSensorReadings') :
                      /\ AddedOne(SoilSensorReadings, SoilSensorReadings', r)
                      /\ CopiesIn(r, SoilSensorReadings')
                            = CopiesIn(r, SoilSensorReadings) + 1
             \/ /\ SoilSensorReadings' = SoilSensorReadings
                /\ \E r \in BagToSet(ClimateReadings') :
                      /\ AddedOne(ClimateReadings, ClimateReadings', r)
                      /\ CopiesIn(r, ClimateReadings')
                            = CopiesIn(r, ClimateReadings) + 1]_vars

\* the same accepted tektelic message delivered twice: two equal soil rows
C8_Witness ==
    /\ outcome = "inserted_soil"
    /\ \E r \in BagToSet(SoilSensorReadings) : SoilSensorReadings[r] = 2

\* timestamps to_est cannot use: none, empty, or not a date
Unusable == {Null, "", "not-a-date", "2024-02-30T12:00:00Z"}

\* C9: a message with the required fields whose received-at timestamp is
\* absent or unparsable is not discarded for that: identity resolution and
\* routing run as usual, and when the message is accepted its reading row is
\* inserted with received_at null.
C9_NullTimestampStillInserted ==
    [][(/\ HandlerStep
        /\ RequiredPresent(msg)
        /\ received_at_raw' \in Unusable)
       => /\ outcome' # "skipped"
          /\ Len(calls') >= 1 /\ calls'[1] = "Brands.upsert"
          /\ (HasSensorName(msg) /\ ClimateRoute(msg) /\ raised' = "none")
                => /\ outcome' = "inserted_climate"
                   /\ \E r \in BagToSet(ClimateReadings') :
                         /\ AddedOne(ClimateReadings, ClimateReadings', r)
                         /\ r.received_at = Null]_vars

\* an accepted message whose timestamp is no date left a row with a null
\* received_at
C9_Witness ==
    /\ outcome = "inserted_climate"
    /\ received_at_raw = "not-a-date"
    /\ \E r \in BagToSet(ClimateReadings) :
          r.received_at = Null /\ r.sensor_name = "Sensor-A"

\* i is the first entry of rx_metadata with a field, for a notion `Has` of a
\* field being there
FirstHit(rx, i, Has(_)) ==
    /\ Has(rx[i].received_at) \/ Has(rx[i].time)
    /\ \A j \in 1..(i - 1) : ~(Has(rx[j].received_at) \/ Has(rx[j].time))

\* the same raw timestamp; null and the empty string both stand for none
Same(a, b) == a = b \/ (~Truthy(a) /\ ~Truthy(b))

\* received_at_raw follows the precedence uplink body, outer envelope, first
\* rx_metadata entry with a field.  Has says when a source is there, and
\* Taken(e, raw) that raw is what entry e yields.
Precedence(m, raw, Has(_), Taken(_, _)) ==
    /\ Has(m.received_at) => Same(raw, m.received_at)
    /\ (~Has(m.received_at) /\ Has(m.top_received_at))
          => Same(raw, m.top_received_at)
    /\ (~Has(m.received_at) /\ ~Has(m.top_received_at)) =>
          \/ \E i \in 1..Len(m.rx_metadata) :
                /\ FirstHit(m.rx_metadata, i, Has)
                /\ Taken(m.rx_metadata[i], raw)
          \/ /\ \A i \in 1..Len(m.rx_metadata) : ~FirstHit(m.rx_metadata, i, Has)
             /\ ~Truthy(raw)

\* a source is present when its key is there with a value, be it empty
Present(v) == v # Null

\* raw is one of the fields the entry exposes
TakenAny(e, raw) ==
    \E v \in {e.received_at, e.time} : Present(v) /\ Same(raw, v)

\* raw is the entry's received_at if that is non-empty, else its time
TakenNonEmpty(e, raw) ==
    raw = (IF Truthy(e.received_at) THEN e.received_at ELSE e.time)

\* C10 as stated: strict precedence by presence: uplink_message.received_at
\* if present, else the top-level received_at, else the first rx_metadata
\* entry exposing received_at or time.
C10_PrecedenceByPresence ==
    [][(HandlerStep /\ msg.json_ok)
       => Precedence(msg, received_at_raw', Present, TakenAny)]_vars

\* C10 amended: the same precedence among non-empty values: a source that is
\* present but empty counts as absent, in the envelope and in an rx_metadata
\* entry alike; within an entry received_at is preferred to time.
C10_PrecedenceByTruthiness ==
    [][(HandlerStep /\ msg.json_ok)
       => Precedence(msg, received_at_raw', Truthy, TakenNonEmpty)]_vars

\* the time of the first rx_metadata entry was taken (its received_at is
\* empty), and the later entry's received_at was not
C10_Witness ==
    /\ loop = "Idle" /\ outcome = "inserted_climate"
    /\ received_at_raw = "2024-07-04T16:00:00.123456Z"
    /\ \E r \in BagToSet(ClimateReadings) : r.received_at = "2024-07-04 12:00:00"

\* UTC timestamps YYYY-MM-DDTHH:MM:SS[.fraction]Z and the New York civil
\* time at that instant, as CPython with the IANA time zone data gives it:
\* the hour before and the instant of the change to daylight time
\* (2024-03-10 07:00 UTC), the second before and the instant of the change
\* back (2024-11-03 06:00 UTC), a date that moves to the previous year, a
\* leap day, fractions of 1, 6 and 7 digits.
NewYorkCivil(ts) ==
    CASE ts = "2024-01-01T12:00:00Z" -> "2024-01-01 07:00:00"
      [] ts = "2024-07-04T16:00:00.123456Z" -> "2024-07-04 12:00:00"
      [] ts = "2024-03-10T06:30:00Z" -> "2024-03-10 01:30:00"
      [] ts = "2024-03-10T06:59:59Z" -> "2024-03-10 01:59:59"
      [] ts = "2024-03-10T07:00:00Z" -> "2024-03-10 03:00:00"
      [] ts = "2024-11-03T05:59:59Z" -> "2024-11-03 01:59:59"
      [] ts = "2024-11-03T06:00:00Z" -> "2024-11-03 01:00:00"
      [] ts = "2024-01-01T03:00:00.5Z" -> "2023-12-31 22:00:00"
      [] ts = "2024-02-29T23:30:00Z" -> "2024-02-29 18:30:00"
      [] ts = "2024-07-04T16:00:00.1234567Z" -> "2024-07-04 12:00:00"
      [] ts = "not-a-date" -> Null

\* the received_at of the reading row the step added
AddedReceivedAt(v) ==
    \E r \in BagToSet(ClimateReadings') :
       AddedOne(ClimateReadings, ClimateReadings', r) /\ r.received_at = v

\* C11: to_est turns a UTC timestamp YYYY-MM-DDTHH:MM:SS[.fraction]Z into
\* the America/New_York civil time at that instant, 'YYYY-MM-DD HH:MM:SS',
\* UTC-5 outside daylight saving and UTC-4 within it, whatever the host's
\* zone: "2024-03-10T06:30:00Z" gives "2024-03-10 01:30:00",
\* "2024-07-04T16:00:00.123456Z" gives "2024-07-04 12:00:00", and
\* "not-a-date" gives null.
C11_ToEstNewYorkCivil ==
    [][(/\ HandlerStep
        /\ outcome' = "inserted_climate"
        /\ received_at_raw' \in
              {"2024-01-01T12:00:00Z", "2024-07-04T16:00:00.123456Z",
               "2024-03-10T06:30:00Z", "2024-03-10T06:59:59Z",
               "2024-03-10T07:00:00Z", "2024-11-03T05:59:59Z",
               "2024-11-03T06:00:00Z", "2024-01-01T03:00:00.5Z",
               "2024-02-29T23:30:00Z", "2024-07-04T16:00:00.1234567Z",
               "not-a-date"})
       => AddedReceivedAt(NewYorkCivil(received_at_raw'))]_vars

\* both of the claim's conversions are stored: one in standard time, one in
\* daylight time
C11_Witness ==
    /\ received_at_raw = "2024-07-04T16:00:00.123456Z"
    /\ \E r \in BagToSet(ClimateReadings) : r.received_at = "2024-07-04 12:00:00"
    /\ \E r \in BagToSet(ClimateReadings) : r.received_at = "2024-03-10 01:30:00"

\* the sensor_name values stored for device_eui e in a Devices table
SensorNamesOf(D, e) == {r.sensor_name : r \in RowsWith(D, "device_eui", e)}

\* the brand values stored for device_eui e in a Devices table
BrandsOf(D, e) == {r.brand : r \in RowsWith(D, "device_eui", e)}

\* C12: processing a message never changes the sensor_name of a Devices
\* row: a row that exists keeps its sensor_name, also when the upsert
\* rewrites its brand, and a row the message creates has sensor_name null.
C12_SensorNameReadOnly ==
    [][HandlerStep =>
          \A e \in DeviceIds :
             IF RowsWith(Devices, "device_eui", e) # {}
             THEN SensorNamesOf(Devices', e) = SensorNamesOf(Devices, e)
             ELSE SensorNamesOf(Devices', e) \subseteq {Null}]_vars

\* a message of another brand was processed for a device that has a
\* sensor_name: the row was rewritten and still carries the name
C12_Witness ==
    /\ loop = "Idle" /\ outcome = "no_handler"
    /\ \E r \in BagToSet(Devices) :
          r.device_eui = "eui-1" /\ r.brand = "acme" /\ r.sensor_name = "Sensor-A"
    /\ RowCount > 0

\* C13: the Devices upsert overwrites the brand of a known device_eui: after
\* a message whose Devices upsert succeeded there is exactly one row of its
\* device_eui and its brand is the message's brand_id; every other step
\* leaves the brand of every device as it is, so each row's brand is that of
\* the latest message of its device whose Devices upsert succeeded.
C13_BrandFollowsLatestMessage ==
    [][\A e \in DeviceIds :
          IF HandlerStep /\ IdentityResolved' /\ msg.device_id = e
          THEN /\ CountWith(Devices', "device_eui", e) = 1
               /\ BrandsOf(Devices', e) = {msg.brand_id}
          ELSE BrandsOf(Devices', e) = BrandsOf(Devices, e)]_vars

\* eui-1 has reported as elsys (its climate reading is stored) and is now
\* stored under another brand, in one row
C13_Witness ==
    /\ ClimateReadings # EmptyBag
    /\ CountWith(Devices, "device_eui", "eui-1") = 1
    /\ BrandsOf(Devices, "eui-1") = {"tektelic"}

\* no routing rule matches the message: NoTarget
NoTarget(m) == RequiredPresent(m) /\ ~SoilRoute(m) /\ ~ClimateRoute(m)

\* C14 as stated: a message that matches no routing rule (the router reached
\* its else branch, line 110) leaves no row created or changed in any of
\* Brands, Devices, SoilSensorReadings, ClimateReadings.
C14_NoTargetNoPersistence ==
    [][(HandlerStep /\ NoTarget(msg) /\ outcome' = "no_handler")
       => UNCHANGED tables]_vars

\* C14 amended: a message that matches no routing rule adds or changes no
\* reading row and no insert is attempted; the Brands and Devices upserts of
\* identity resolution run before routing, so the message's Brands row
\* exists afterwards and its Devices row carries the message's brand_id.
\* Rows of other brands and devices are untouched.
C14_NoTargetNoReading ==
    [][(HandlerStep /\ NoTarget(msg))
       => /\ UNCHANGED readings
          /\ \A i \in 1..Len(calls') :
                calls'[i] \in {"Brands.upsert", "Devices.upsert"}
          /\ raised' = "none" =>
                /\ outcome' \in {"no_handler", "no_sensor_name"}
                /\ calls' = <<"Brands.upsert", "Devices.upsert">>
                /\ CountWith(Brands', "brand_name", msg.brand_id) = 1
                /\ CountWith(Devices', "device_eui", msg.device_id) = 1
                /\ BrandsOf(Devices', msg.device_id) = {msg.brand_id}
          /\ \A b \in BrandIds \ {msg.brand_id} :
                RowsWith(Brands', "brand_name", b) = RowsWith(Brands, "brand_name", b)
          /\ \A e \in DeviceIds \ {msg.device_id} :
                RowsWith(Devices', "device_eui", e) = RowsWith(Devices, "device_eui", e)]_vars

\* the router found no rule for a message of brand acme: nothing but the
\* acme Brands row and the device's row under acme came of it
C14_Witness ==
    /\ loop = "Idle" /\ outcome = "no_handler"
    /\ calls = <<"Brands.upsert", "Devices.upsert">>
    /\ CountWith(Brands, "brand_name", "acme") = 1
    /\ BrandsOf(Devices, "eui-1") = {"acme"}
    /\ RowCount = 0

\* every row of T is in Tnew at least as often: none was changed or deleted
Kept(T, Tnew) == \A r \in BagToSet(T) : CopiesIn(r, Tnew) >= CopiesIn(r, T)

\* C15: SoilSensorReadings and ClimateReadings are append-only: every step
\* leaves both as they are or adds exactly one row to exactly one of them,
\* and every row stored before the step is stored after it, as often.
C15_ReadingsAppendOnly ==
    [][/\ \/ UNCHANGED readings
          \/ /\ ClimateReadings' = ClimateReadings
             /\ \E r \in BagToSet(SoilSensorReadings') :
                   AddedOne(SoilSensorReadings, SoilSensorReadings', r)
          \/ /\ SoilSensorReadings' = SoilSensorReadings
             /\ \E r \in BagToSet(ClimateReadings') :
                   AddedOne(ClimateReadings, ClimateReadings', r)
       /\ Kept(SoilSensorReadings, SoilSensorReadings')
       /\ Kept(ClimateReadings, ClimateReadings')
       /\ RowCount' \in {RowCount, RowCount + 1}]_vars

\* a second, different reading of the same sensor was stored next to the
\* first
C15_Witness ==
    \E r1, r2 \in BagToSet(ClimateReadings) :
       r1 # r2 /\ r1.sensor_name = r2.sensor_name

\* C16: to_est treats a timestamp that carries no UTC offset as UTC,
\* independently of the host's local time zone: "2024-01-01T12:00:00" is
\* converted as 12:00:00 UTC, which is 07:00:00 in New York.
C16_OffsetlessIsUtc ==
    [][(/\ HandlerStep
        /\ outcome' = "inserted_climate"
        /\ received_at_raw' = "2024-01-01T12:00:00")
       => AddedReceivedAt("2024-01-01 07:00:00")]_vars

\* C17: no transaction spans the three store steps and a failing step ends
\* the message.  The last entry of calls is the call that failed: after a
\* failed Brands upsert nothing else was attempted and nothing is written;
\* after a failed Devices upsert the Brands row of the message is stored,
\* Devices is as before and no insert was attempted; after a failed insert
\* the Brands and Devices rows of the message are stored, no reading is, and
\* the insert was attempted once.
C17_FailingStepEndsMessage ==
    [][(HandlerStep /\ raised' = "StoreError")
       => /\ loop' = "Idle" /\ outcome' = "error"
          /\ UNCHANGED readings
          /\ calls' \in {<<"Brands.upsert">>,
                         <<"Brands.upsert", "Devices.upsert">>,
                         <<"Brands.upsert", "Devices.upsert",
                           "SoilSensorReadings.insert">>,
                         <<"Brands.upsert", "Devices.upsert",
                           "ClimateReadings.insert">>}
          /\ Len(calls') = 1 => UNCHANGED tables
          /\ Len(calls') = 2 =>
                /\ CountWith(Brands', "brand_name", msg.brand_id) = 1
                /\ Devices' = Devices
          /\ Len(calls') = 3 =>
                /\ CountWith(Brands', "brand_name", msg.brand_id) = 1
                /\ CountWith(Devices', "device_eui", msg.device_id) = 1
                /\ BrandsOf(Devices', msg.device_id) = {msg.brand_id}]_vars

\* the Devices upsert of the first message of brand acme failed: the acme
\* Brands row stays, with no device under it
C17_Witness ==
    /\ loop = "Idle" /\ raised = "StoreError"
    /\ calls = <<"Brands.upsert", "Devices.upsert">>
    /\ CountWith(Brands, "brand_name", "acme") = 1
    /\ \A r \in BagToSet(Devices) : r.brand # "acme"

\* the brand of each Devices row names a row of Brands
DeviceBrandInBrands ==
    \A d \in BagToSet(Devices) :
       \E b \in BagToSet(Brands) : b.brand_name = d.brand

\* C18: in every store state reached by processing messages from the empty
\* (consistent) store, the brand of each Devices row names a row of Brands,
\* because Brands rows are never deleted and within a message the Devices
\* upsert is attempted only after the Brands upsert has stored the brand.
C18_BrandsBeforeDevices ==
    /\ []DeviceBrandInBrands
    /\ [][/\ Kept(Brands, Brands')
          /\ HandlerStep =>
                \A i \in 1..Len(calls') :
                   calls'[i] = "Devices.upsert"
                      => /\ i = 2 /\ calls'[1] = "Brands.upsert"
                         /\ CountWith(Brands', "brand_name", msg.brand_id) = 1]_vars

\* a Brands upsert has failed, and the two devices are stored under two
\* brands, both in Brands
C18_Witness ==
    /\ raised = "StoreError" /\ calls = <<"Brands.upsert">>
    /\ Cardinality(BagToSet(Devices)) = 2
    /\ Cardinality({d.brand : d \in BagToSet(Devices)}) = 2

\* the store holds no Devices row of the message's device_eui
FirstSighting(m) == RowsWith(Devices, "device_eui", m.device_id) = {}

\* C19: a message of a device_eui that has no Devices row inserts no
\* reading, however valid and routable it is, and, unless a store call
\* fails, creates the row with sensor_name null and ends at the sensor_name
\* check; a step adds a reading only for a device whose row carried a
\* sensor_name before the step began, which only provisioning assigns.
C19_FirstSightingNoReading ==
    [][/\ (HandlerStep /\ RequiredPresent(msg) /\ FirstSighting(msg))
             => /\ UNCHANGED readings
                /\ raised' \in {"none", "StoreError"}
                /\ raised' = "none" =>
                      /\ outcome' = "no_sensor_name"
                      /\ RowsWith(Devices', "device_eui", msg.device_id)
                            = {[device_eui |-> msg.device_id,
                                brand |-> msg.brand_id, sensor_name |-> Null]}
                      /\ CountWith(Devices', "device_eui", msg.device_id) = 1
       /\ RowCount' # RowCount
             => /\ HandlerStep
                /\ \E d \in BagToSet(Devices) :
                      /\ d.device_eui = msg.device_id
                      /\ d.sensor_name # Null
                      /\ \A r \in BagToSet(SoilSensorReadings')
                                     \cup BagToSet(ClimateReadings') :
                            CopiesIn(r, SoilSensorReadings') + CopiesIn(r, ClimateReadings')
                               > CopiesIn(r, SoilSensorReadings) + CopiesIn(r, ClimateReadings)
                            => r.sensor_name = d.sensor_name]_vars

\* eui-2 was first seen with a routable elsys message and got a row without
\* a sensor_name and no reading, while the provisioned eui-1 has readings
C19_Witness ==
    /\ loop = "Idle" /\ outcome = "no_sensor_name"
    /\ [device_eui |-> "eui-2", brand |-> "elsys", sensor_name |-> Null]
          \in BagToSet(Devices)
    /\ RowCount > 0
    /\ \A r \in BagToSet(SoilSensorReadings) \cup BagToSet(ClimateReadings) :
          r.sensor_name = "Sensor-A"
====
